---------------------------- MODULE Spec2Model ----------------------------
(***************************************************************************)
(* The training / evaluation control loop of main.py: train() with its     *)
(* checkpoint selection and early stopping, and evaluate() with its three   *)
(* modes.  Floats are modelled by integers (only their order matters),      *)
(* np.inf / -np.inf by PosInf / NegInf, the model's parameters by a version *)
(* counter that every optimizer step advances, the checkpoint directory by  *)
(* the two files a save writes.                                             *)
(***************************************************************************)
EXTENDS Integers, Sequences, FiniteSets

\* ------------------------------------------------------------- bounds
MaxEpochs == 4
MaxPatience == 2
MaxMetric == 2
MaxBatches == 2
MaxEvalBatches == 2
MaxBatchSize == 2
MaxCalls == 2
MaxLabels == 3
MaxRows == 2

\* ---------------------------------------------------------- constants
\* np.inf and -np.inf, the sentinels of min_loss / prev_dev_loss and of
\* max_score / prev_dev_score: beyond every finite metric of the model.
PosInf == 1000
NegInf == -1000
\* best_epoch before its first assignment (an unbound local of train()).
Unbound == -1
\* The run that executes train() and an earlier run that used the same
\* checkpoint directory (the directory's name depends on mode, task name,
\* learning rate and seed only).
ThisRun == "this run"
EarlierRun == "earlier run"

Losses == 0..MaxMetric
Scores == 0..MaxMetric

\* What the validation run of an epoch can return, (dev_loss, dev_score):
\* every value of the monitored metric, with either extreme of the other one.
ValidationResults(monitor) ==
    IF monitor = "loss" THEN Losses \X {0, MaxMetric}
    ELSE {0, MaxMetric} \X Scores

VARIABLES
    args,             \* the run configuration (never assigned by train())
    train_len,        \* len(train_dataloader)
    pc,               \* position of train()
    epoch, step, global_step,
    min_loss, max_score, prev_dev_loss, prev_dev_score,
    training_hist, dev_loss_record, dev_score_record,
    best_epoch, output_dir,
    weights,          \* model parameters: number of optimizer steps applied
    mode,             \* "train" | "eval": model.train() / model.eval()
    grads,            \* batches whose gradient is accumulated in .grad
    ckpt,             \* the checkpoint directory: its two files
    log,              \* what logger.info has recorded of the epochs
    \* evaluate(dataloader, model, num_labels, eval, predict_only)
    net,              \* the logits the model gives each example in inference mode
    dataloader, eval, predict_only,
    epc,              \* position of evaluate()
    batch_i,          \* the batch the loop of line 34 is at (from 1)
    eval_loss, nb_eval_steps, full_preds, full_golds,
    calls,            \* what the calls of evaluate() so far have returned
    \* optimizer and schedule
    lr,               \* the factor the schedule puts on the learning rate, <<num, den>>
    sched_steps,      \* scheduler.step() calls so far (LambdaLR.last_epoch)
    step_ops,         \* the calls of the latest training step, in order
    step_grad,        \* batches in the gradient the latest optimizer.step() applied
    fwd,              \* the latest forward pass: its caller and the model's mode
    \* main() after train()
    pred_files,       \* dev_preds.npy / test_preds.npy: the parameters that computed them
    \* one_hot() and f1_score() on their own
    mpc, m_labels, m_x, m_golds, m_res, m_alt, m_score

locals == <<epoch, step, global_step, min_loss, max_score, prev_dev_loss,
            prev_dev_score, training_hist, dev_loss_record, dev_score_record,
            best_epoch, output_dir>>
modelVars == <<weights, mode, grads>>
trainVars == <<args, train_len, pc, locals, ckpt, log>>
evalInputs == <<net, dataloader, eval, predict_only>>
evalVars == <<evalInputs, epc, batch_i, eval_loss, nb_eval_steps, full_preds,
              full_golds, calls>>
optVars == <<lr, sched_steps, step_ops, step_grad>>
metricVars == <<mpc, m_labels, m_x, m_golds, m_res, m_alt, m_score>>
\* What no step of train() touches.
outsideTrain == <<evalVars, pred_files, metricVars>>
vars == <<trainVars, modelVars, evalVars, optVars, fwd, pred_files, metricVars>>

\* ------------------------------------------------------------ helpers
Last(s) == s[Len(s)]

\* Tail_n with a window one element too long.
Tail_n_OneMore(s, n) ==
    IF n + 1 >= Len(s) THEN s ELSE SubSeq(s, Len(s) - n, Len(s))

\* Python's s[-n:] : the last n elements; the whole list when n = 0
\* (-0 is 0) or when n >= len(s).
Tail_n(s, n) ==
    IF n = 0 \/ n >= Len(s) THEN s ELSE SubSeq(s, Len(s) - n + 1, Len(s))

\* np.any over a list of booleans.
np_any(s) == \E i \in 1..Len(s) : s[i]

\* NUM_EPOCHS_of with the two branches exchanged.
NUM_EPOCHS_of_Swapped(a) ==
    IF a.early_stopping THEN a.num_train_epochs ELSE a.max_num_epochs

\* lines 62-65
NUM_EPOCHS_of(a) ==
    IF ~a.early_stopping THEN a.num_train_epochs ELSE a.max_num_epochs

NUM_EPOCHS == NUM_EPOCHS_of(args)

\* ----------------------------------------------- optimizer and schedule
\* Rationals are pairs <<numerator, denominator>> with a positive denominator.
Max(a, b) == IF a >= b THEN a ELSE b
RatLess(a, b) == a[1] * b[2] < b[1] * a[2]
RatEq(a, b) == a[1] * b[2] = b[1] * a[2]

\* t_total_of counting the batches of one epoch only.
t_total_of_OneEpoch(a, n) == n

\* line 73: t_total = len(train_dataloader) * NUM_EPOCHS
t_total_of(a, n) == n * NUM_EPOCHS_of(a)

\* The lr_lambda of get_linear_schedule_with_warmup(optimizer,
\* num_warmup_steps = warmup_ratio * t_total, num_training_steps = t_total)
\* of line 75, as transformers defines it:
\*   current_step / max(1, num_warmup_steps)     if current_step < num_warmup_steps
\*   max(0, (num_training_steps - current_step)
\*          / max(1, num_training_steps - num_warmup_steps))           otherwise
\* with num_warmup_steps the rational rn * T / rd, not rounded.
lr_lambda(a, n, current_step) ==
    LET T == t_total_of(a, n)
        rn == a.warmup_ratio[1]
        rd == a.warmup_ratio[2]
    IN  IF current_step * rd < rn * T
        THEN <<current_step * rd, Max(rd, rn * T)>>
        ELSE <<Max(0, (T - current_step) * rd), Max(rd, (rd - rn) * T)>>

\* The factor on the learning rate after k calls of scheduler.step(); without
\* warmup there is no schedule and the rate is args.learning_rate throughout.
lr_after(a, n, k) == IF a.warmup THEN lr_lambda(a, n, k) ELSE <<1, 1>>

\* model_train without the call of line 102: the mode stays what it was.
model_train_Missing(m) == m

\* The mode line 102 puts the model in.
model_train(m) == "train"

\* model_eval without the call of line 33: the mode stays what it was.
model_eval_Missing(m) == m

\* The mode line 33 puts the model in.
model_eval(m) == "eval"

\* zero_grad without the call of line 115: the gradients stay.
zero_grad_Missing(g) == g

\* optimizer.zero_grad() / model.zero_grad(): no batch's gradient is left.
zero_grad(g) == 0

\* NewBest with the score block testing for a lower score.
NewBest_ScoreLower(monitor, dev_loss, dev_score, minl, maxs) ==
    \/ monitor = "loss"  /\ dev_loss < minl
    \/ monitor = "score" /\ dev_score < maxs

\* NewBest with non-strict comparisons: a tie counts as a new best.
NewBest_NonStrict(monitor, dev_loss, dev_score, minl, maxs) ==
    \/ monitor = "loss"  /\ dev_loss <= minl
    \/ monitor = "score" /\ dev_score >= maxs

\* The guards of the two checkpoint blocks, lines 131 and 143.
NewBest(monitor, dev_loss, dev_score, minl, maxs) ==
    \/ monitor = "loss"  /\ dev_loss < minl
    \/ monitor = "score" /\ dev_score > maxs

\* Improved with the loss block as lenient as the score block.
Improved_LossNonStrict(monitor, dev_loss, dev_score, prevl, prevs) ==
    IF monitor = "loss" THEN dev_loss <= prevl ELSE dev_score >= prevs

\* The improvement flag appended to training_hist, lines 156 and 166.
Improved(monitor, dev_loss, dev_score, prevl, prevs) ==
    IF monitor = "loss" THEN dev_loss < prevl ELSE dev_score >= prevs

\* prev_after without the assignment of line 163 / 173: the sentinel stays.
prev_after_Stale(updated, cur, prev) == prev

\* prev_dev_loss / prev_dev_score after the early-stopping block: lines 163
\* and 173 assign the value of this epoch when the block runs to its end.
prev_after(updated, cur, prev) == IF updated THEN cur ELSE prev

\* LeavesLoop without the break of lines 162 / 172.
LeavesLoop_BudgetOnly(stop, e, n) == e + 1 = n

\* Whether the epoch ends the loop: the break of line 162 / 172, or the one
\* of line 176.
LeavesLoop(stop, e, n) == stop \/ e + 1 = n

\* The condition of the break, lines 160 and 170 (hist already holds the
\* flag of this epoch, which is False).
Triggered(hist, patience) ==
    Len(hist) > patience /\ ~np_any(Tail_n(hist, patience))

\* --------------------------------------------------------- checkpoint
NoFile == [state |-> "none", run |-> EarlierRun, epoch |-> 0, weights |-> 0]
TornFile == [state |-> "torn", run |-> ThisRun, epoch |-> 0, weights |-> 0]
File(r, e, w) == [state |-> "complete", run |-> r, epoch |-> e, weights |-> w]

EmptyDir == [model |-> NoFile, args |-> NoFile]
\* What an earlier run with the same mode, task, learning rate and seed left.
EarlierDir == [model |-> File(EarlierRun, 0, 1), args |-> File(EarlierRun, 0, 0)]

\* ----------------------------------------------------------- evaluate
\* args.num_labels: the background class 0 and two relation classes.
num_labels == 3

\* The examples of a batch-sequence, and the row of logits an example can get.
ExampleIds == 0..1
LogitRows == {<<1, 0, 0>>, <<0, 1, 0>>, <<0, 0, 1>>, <<1, 1, 0>>}

\* The gold class of an example (class 0 is the background class).
GoldClass(x) == x

\* np.argmax of one row: the first index (from 0) of its maximum.
argmax(row) ==
    CHOOSE c \in 0..(Len(row) - 1) :
        /\ \A d \in 0..(Len(row) - 1) : row[d + 1] <= row[c + 1]
        /\ \A d \in 0..(c - 1) : row[d + 1] < row[c + 1]

\* np.argmax(preds, axis=1)
argmax_axis1(rows) == [i \in 1..Len(rows) |-> argmax(rows[i])]

\* np.zeros((n, L)): n rows of L zeros.
zeros(n, L) == [i \in 1..n |-> [c \in 1..L |-> 0]]

\* The loop of lines 24-25 from row i on: res[i, x[i]] = 1 (columns count
\* from 0 in the source, from 1 here).
RECURSIVE one_hot_loop(_, _, _)
one_hot_loop(res, x, i) ==
    IF i > Len(x) THEN res
    ELSE one_hot_loop([res EXCEPT ![i][x[i] + 1] = 1], x, i + 1)

\* one_hot with the assignment of line 25 placed after the loop: only the
\* last row is set.
one_hot_LastRowOnly(x, L) ==
    IF x = <<>> THEN zeros(0, L)
    ELSE [zeros(Len(x), L) EXCEPT ![Len(x)][x[Len(x)] + 1] = 1]

\* lines 22-26
one_hot(x, L) == one_hot_loop(zeros(Len(x), L), x, 1)

\* np.concatenate of a list of per-batch arrays.
RECURSIVE np_concatenate(_)
np_concatenate(arrays) ==
    IF arrays = <<>> THEN <<>>
    ELSE arrays[1] \o np_concatenate(Tail(arrays))

RECURSIVE Sum(_)
Sum(s) == IF s = <<>> THEN 0 ELSE s[1] + Sum(Tail(s))

\* f1_micro without the labels argument of line 57: every column counts.
f1_micro_AllLabels(golds, preds, L) ==
    LET cell(i, c, g, p) == IF golds[i][c] = g /\ preds[i][c] = p THEN 1 ELSE 0
        count(g, p) ==
            Sum([i \in 1..Len(golds) |->
                    Sum([k \in 1..L |-> cell(i, k, g, p)])])
        tp == count(1, 1)
        fp == count(0, 1)
        fn == count(1, 0)
    IN  IF 2 * tp + fp + fn = 0 THEN <<0, 1>> ELSE <<2 * tp, 2 * tp + fp + fn>>

\* f1_score(golds, preds, average="micro", labels=range(1, L)) on two
\* indicator matrices: 2tp / (2tp + fp + fn) over the columns 1..L-1, as the
\* fraction <<numerator, denominator>>; 0 when nothing is predicted or gold.
f1_micro(golds, preds, L) ==
    LET cell(i, c, g, p) == IF golds[i][c] = g /\ preds[i][c] = p THEN 1 ELSE 0
        count(g, p) ==
            Sum([i \in 1..Len(golds) |->
                    Sum([k \in 1..(L - 1) |-> cell(i, k + 1, g, p)])])
        tp == count(1, 1)
        fp == count(0, 1)
        fn == count(1, 0)
    IN  IF 2 * tp + fp + fn = 0 THEN <<0, 1>> ELSE <<2 * tp, 2 * tp + fp + fn>>

\* The batches a provider yields: 1..MaxBatchSize examples each, all with a
\* label field or all without.
Batches(labelled) ==
    UNION {[inputs : [1..n -> ExampleIds], labels : {labelled}]
               : n \in 1..MaxBatchSize}
Dataloaders ==
    UNION {[1..n -> Batches(labelled)]
               : n \in 1..MaxEvalBatches, labelled \in BOOLEAN}

\* model(**batch): a batch with labels gives (loss, logits), one without
\* gives (logits,).  In inference mode the logits are those of net; in
\* training mode dropout makes them any rows.
ModelOutputs(batch, m) ==
    LET n == Len(batch.inputs)
        rowsets == IF m = "eval"
                   THEN {[i \in 1..n |-> net[batch.inputs[i]]]}
                   ELSE [1..n -> LogitRows]
        loss(rows) == Sum([i \in 1..n |->
                        IF argmax(rows[i]) = GoldClass(batch.inputs[i])
                        THEN 0 ELSE 1])
    IN  {IF batch.labels THEN <<loss(rows), rows>> ELSE <<rows>> : rows \in rowsets}


\* Lines 29-33.
EvalCall ==
    /\ epc \in {"idle", "done"}
    /\ Len(calls) < MaxCalls
    /\ eval_loss' = 0 /\ nb_eval_steps' = 0
    /\ full_preds' = <<>> /\ full_golds' = <<>>
    /\ mode' = model_eval(mode)
    /\ batch_i' = 1
    /\ epc' = "loop"
    /\ UNCHANGED <<evalInputs, calls, weights, grads, trainVars, optVars, fwd,
                   pred_files, metricVars>>

\* One pass of the loop of lines 34-48.
EvalBatch ==
    /\ epc = "loop"
    /\ batch_i <= Len(dataloader)
    /\ fwd' = [caller |-> "evaluate", mode |-> mode]
    /\ LET batch == dataloader[batch_i] IN
       \E out \in ModelOutputs(batch, mode) :
          IF predict_only
          THEN \* line 37: [0] of (loss, logits) is the scalar loss, and
               \* np.argmax(axis=1) of a scalar raises
               IF Len(out) = 2
               THEN /\ epc' = "raised"
                    /\ UNCHANGED <<batch_i, eval_loss, nb_eval_steps,
                                   full_preds, full_golds>>
               ELSE /\ full_preds' = Append(full_preds, argmax_axis1(out[1]))
                    /\ batch_i' = batch_i + 1
                    /\ UNCHANGED <<epc, eval_loss, nb_eval_steps, full_golds>>
          ELSE \* line 39: unpacking the one-element (logits,) into
               \* loss, logits raises
               IF Len(out) < 2
               THEN /\ epc' = "raised"
                    /\ UNCHANGED <<batch_i, eval_loss, nb_eval_steps,
                                   full_preds, full_golds>>
               ELSE /\ eval_loss' = eval_loss + out[1]
                    /\ nb_eval_steps' = nb_eval_steps + 1
                    /\ full_preds' = Append(full_preds,
                            one_hot(argmax_axis1(out[2]), num_labels))
                    /\ full_golds' = Append(full_golds,
                            one_hot([i \in 1..Len(batch.inputs) |->
                                        GoldClass(batch.inputs[i])], num_labels))
                    /\ batch_i' = batch_i + 1
                    /\ UNCHANGED epc
    /\ UNCHANGED <<evalInputs, calls, modelVars, trainVars, optVars,
                   pred_files, metricVars>>

\* Lines 49-57.
EvalReturn ==
    /\ epc = "loop"
    /\ batch_i > Len(dataloader)
    /\ LET preds == np_concatenate(full_preds) IN
       calls' = Append(calls,
           IF predict_only \/ eval
           THEN [kind |-> "preds", value |-> preds]
           ELSE [kind |-> "metrics",
                 value |-> <<<<eval_loss, nb_eval_steps>>,
                             f1_micro(np_concatenate(full_golds), preds,
                                      num_labels)>>])
    /\ epc' = "done"
    /\ UNCHANGED <<evalInputs, batch_i, eval_loss, nb_eval_steps, full_preds,
                   full_golds, modelVars, trainVars, optVars, fwd, pred_files,
                   metricVars>>

\* --------------------------------------------------------------- Init
\* Runs without warmup.
ArgsSet ==
    [early_stopping : {FALSE}, monitor : {"loss", "score"},
     num_train_epochs : 0..MaxEpochs, max_num_epochs : {MaxEpochs},
     patience : {0}, warmup : {FALSE}, warmup_ratio : {<<1, 10>>}]
    \cup
    [early_stopping : {TRUE}, monitor : {"loss", "score"},
     num_train_epochs : {1}, max_num_epochs : 0..MaxEpochs,
     patience : 0..MaxPatience, warmup : {FALSE}, warmup_ratio : {<<1, 10>>}]

\* args.warmup_ratio: a proper fraction of the run, <<numerator, denominator>>.
WarmupRatios == {<<1, 10>>, <<1, 4>>, <<1, 2>>}

\* Runs with and without warmup, monitoring the loss.
WarmupArgsSet ==
    [early_stopping : {FALSE}, monitor : {"loss"},
     num_train_epochs : 0..MaxEpochs, max_num_epochs : {MaxEpochs},
     patience : {0}, warmup : {TRUE}, warmup_ratio : WarmupRatios]
    \cup
    [early_stopping : {TRUE}, monitor : {"loss"},
     num_train_epochs : {1}, max_num_epochs : 0..MaxEpochs,
     patience : {1}, warmup : {TRUE}, warmup_ratio : WarmupRatios]
    \cup
    [early_stopping : {FALSE}, monitor : {"loss"},
     num_train_epochs : 0..MaxEpochs, max_num_epochs : {MaxEpochs},
     patience : {0}, warmup : {FALSE}, warmup_ratio : {<<1, 10>>}]

\* The locals of train() after lines 87-94, and the freshly loaded model
\* (from_pretrained returns it in inference mode).
TrainLocalsInit ==
    /\ epoch = 0 /\ step = 0 /\ global_step = 0
    /\ min_loss = PosInf /\ prev_dev_loss = PosInf
    /\ max_score = NegInf /\ prev_dev_score = NegInf
    /\ training_hist = <<>>
    /\ dev_loss_record = <<>> /\ dev_score_record = <<>>
    /\ best_epoch = Unbound /\ output_dir = "unbound"
    /\ log = <<>>

\* No call of evaluate() of its own: train() takes its validation results
\* from Validate.
EvalIdle ==
    /\ net = [x \in ExampleIds |-> <<1, 0, 0>>]
    /\ dataloader = <<>> /\ eval = FALSE /\ predict_only = FALSE
    /\ epc = "unused" /\ batch_i = 0
    /\ eval_loss = 0 /\ nb_eval_steps = 0
    /\ full_preds = <<>> /\ full_golds = <<>>
    /\ calls = <<>>

\* Lines 70-76 and 91: the optimizer, the schedule when there is one, and
\* model.zero_grad(); no forward pass yet.
OptInit ==
    /\ lr = lr_after(args, train_len, 0)
    /\ sched_steps = 0
    /\ grads = zero_grad(0)
    /\ step_ops = <<>> /\ step_grad = 0
    /\ fwd = [caller |-> "none", mode |-> "none"]

\* A prediction file that has not been written.
NoPreds == [written |-> FALSE, weights |-> 0]
\* one_hot() and f1_score() are not called on their own.
MetricIdle ==
    /\ mpc = "unused" /\ m_labels = 0
    /\ m_x = <<>> /\ m_golds = <<>>
    /\ m_res = <<>> /\ m_alt = <<>> /\ m_score = <<>>

Init ==
    /\ args \in ArgsSet
    /\ train_len \in 1..MaxBatches
    /\ pc = IF NUM_EPOCHS_of(args) = 0 THEN "return" ELSE "train"
    /\ TrainLocalsInit
    /\ weights = 0 /\ mode = "eval"
    /\ OptInit
    /\ ckpt \in {EmptyDir, EarlierDir}
    /\ pred_files = [dev |-> NoPreds, test |-> NoPreds]
    /\ EvalIdle
    /\ MetricIdle

\* train() with the schedule of line 75.
InitWarmup ==
    /\ args \in WarmupArgsSet
    /\ train_len \in 1..MaxBatches
    /\ pc = IF NUM_EPOCHS_of(args) = 0 THEN "return" ELSE "train"
    /\ TrainLocalsInit
    /\ weights = 0 /\ mode = "eval"
    /\ OptInit
    /\ ckpt = EmptyDir
    /\ pred_files = [dev |-> NoPreds, test |-> NoPreds]
    /\ EvalIdle
    /\ MetricIdle

\* evaluate() called on a model that training or loading has left in either
\* mode, on any batch-sequence, in any of its modes.
InitEval ==
    /\ args = [early_stopping |-> FALSE, monitor |-> "loss",
               num_train_epochs |-> 0, max_num_epochs |-> 0, patience |-> 0,
               warmup |-> FALSE, warmup_ratio |-> <<1, 10>>]
    /\ train_len = 1
    /\ pc = "unused"
    /\ TrainLocalsInit
    /\ weights = 0 /\ mode \in {"train", "eval"}
    /\ OptInit
    /\ ckpt = EmptyDir
    /\ pred_files = [dev |-> NoPreds, test |-> NoPreds]
    /\ MetricIdle
    /\ net \in [ExampleIds -> LogitRows]
    /\ dataloader \in Dataloaders
    /\ eval \in BOOLEAN /\ predict_only \in BOOLEAN
    /\ epc = "idle" /\ batch_i = 0
    /\ eval_loss = 0 /\ nb_eval_steps = 0
    /\ full_preds = <<>> /\ full_golds = <<>>
    /\ calls = <<>>

\* one_hot() on any class indices below the number of labels, and the score
\* of line 57 on the matrices it gives.
InitMetric ==
    /\ args = [early_stopping |-> FALSE, monitor |-> "loss",
               num_train_epochs |-> 0, max_num_epochs |-> 0, patience |-> 0,
               warmup |-> FALSE, warmup_ratio |-> <<1, 10>>]
    /\ train_len = 1
    /\ pc = "unused"
    /\ TrainLocalsInit
    /\ weights = 0 /\ mode = "eval"
    /\ OptInit
    /\ ckpt = EmptyDir
    /\ pred_files = [dev |-> NoPreds, test |-> NoPreds]
    /\ EvalIdle
    /\ mpc = "inputs"
    /\ m_labels \in 1..MaxLabels
    /\ \E n \in 0..MaxRows :
          /\ m_x \in [1..n -> 0..(m_labels - 1)]
          /\ m_golds \in [1..n -> 0..(m_labels - 1)]
    /\ m_res = <<>> /\ m_alt = <<>> /\ m_score = <<>>

\* ------------------------------------------------------------ actions
\* Lines 22-26 on the predicted classes (line 44) and on the gold classes.
OneHot ==
    /\ mpc = "inputs"
    /\ m_res' = [preds |-> one_hot(m_x, m_labels),
                 golds |-> one_hot(m_golds, m_labels)]
    /\ mpc' = "one_hot"
    /\ UNCHANGED <<m_labels, m_x, m_golds, m_alt, m_score>>
    /\ UNCHANGED <<trainVars, modelVars, evalVars, optVars, fwd, pred_files>>

\* A matrix with its column 0 replaced.
WithColumn0(mat, col) == [i \in 1..Len(mat) |-> [mat[i] EXCEPT ![1] = col[i]]]

\* Line 57 on the matrices of OneHot, and on a pair that differs from them
\* in column 0 only.
Score ==
    /\ mpc = "one_hot"
    /\ m_labels >= 2
    /\ \E pcol \in [1..Len(m_x) -> {0, 1}], gcol \in [1..Len(m_x) -> {0, 1}] :
         LET alt == [preds |-> WithColumn0(m_res.preds, pcol),
                     golds |-> WithColumn0(m_res.golds, gcol)]
         IN  /\ m_alt' = alt
             /\ m_score' = <<f1_micro(m_res.golds, m_res.preds, m_labels),
                             f1_micro(alt.golds, alt.preds, m_labels)>>
    /\ mpc' = "scored"
    /\ UNCHANGED <<m_labels, m_x, m_golds, m_res>>
    /\ UNCHANGED <<trainVars, modelVars, evalVars, optVars, fwd, pred_files>>

\* One pass of the inner loop, lines 101-116.
TrainStep ==
    /\ pc = "train"
    /\ LET m == model_train(mode)                    \* 102 model.train()
           g == grads + 1                            \* 103-106 forward, backward, clipping
           k == IF args.warmup THEN sched_steps + 1 ELSE sched_steps
       IN  /\ mode' = m
           /\ fwd' = [caller |-> "train", mode |-> m]
           /\ step_grad' = g
           /\ weights' = weights + (IF g > 0 THEN 1 ELSE 0)   \* 112 optimizer.step()
           /\ sched_steps' = k                       \* 113-114 scheduler.step()
           /\ lr' = lr_after(args, train_len, k)
           /\ grads' = zero_grad(g)                  \* 115 optimizer.zero_grad()
           /\ step_ops' = <<"model.train", "forward", "backward", "clip_grad_norm_",
                            "optimizer.step">>
                           \o (IF args.warmup THEN <<"scheduler.step">> ELSE <<>>)
                           \o <<"optimizer.zero_grad", "global_step += 1">>
    /\ global_step' = global_step + 1               \* 116
    /\ step' = step + 1
    /\ pc' = IF step + 1 = train_len THEN "validate" ELSE "train"
    /\ UNCHANGED outsideTrain
    /\ UNCHANGED <<args, train_len, epoch, min_loss, max_score, prev_dev_loss,
                   prev_dev_score, training_hist, dev_loss_record,
                   dev_score_record, best_epoch, output_dir, ckpt, log>>

\* Lines 123-133 and 143-145: the validation run and the checkpoint
\* decision.  evaluate() leaves the model in inference mode.
Validate ==
    /\ pc = "validate"
    /\ \E res \in ValidationResults(args.monitor) :
       LET dev_loss == res[1]
           dev_score == res[2]
       IN
        /\ mode' = model_eval(mode)
        /\ fwd' = [caller |-> "evaluate", mode |-> model_eval(mode)]
        /\ dev_loss_record' = Append(dev_loss_record, dev_loss)
        /\ dev_score_record' = Append(dev_score_record, dev_score)
        /\ log' = Append(log, [event |-> "validation", epoch |-> epoch])
        /\ IF NewBest(args.monitor, dev_loss, dev_score, min_loss, max_score)
           THEN /\ min_loss' = IF args.monitor = "loss" THEN dev_loss ELSE min_loss
                /\ max_score' = IF args.monitor = "score" THEN dev_score ELSE max_score
                /\ best_epoch' = epoch
                /\ output_dir' = "best_model_dir"
                /\ pc' = "save_model"
           ELSE /\ UNCHANGED <<min_loss, max_score, best_epoch, output_dir>>
                /\ pc' = "early_stopping"
    /\ UNCHANGED outsideTrain
    /\ UNCHANGED <<args, train_len, epoch, step, global_step, prev_dev_loss,
                   prev_dev_score, training_hist, weights, grads, ckpt, optVars>>

\* Lines 137-139 / 149-151: model.save_pretrained(output_dir) overwrites the
\* weights file in place.
SaveModel ==
    /\ pc = "save_model"
    /\ ckpt' = [ckpt EXCEPT !.model = File(ThisRun, epoch, weights)]
    /\ pc' = "save_args"
    /\ UNCHANGED outsideTrain
    /\ UNCHANGED <<args, train_len, locals, modelVars, log, optVars, fwd>>

\* Lines 140-141 / 152-153: torch.save(args, .../training_args.bin).
SaveArgs ==
    /\ pc = "save_args"
    /\ ckpt' = [ckpt EXCEPT !.args = File(ThisRun, epoch, 0)]
    /\ log' = Append(log, [event |-> "saved", epoch |-> epoch])
    /\ pc' = "early_stopping"
    /\ UNCHANGED outsideTrain
    /\ UNCHANGED <<args, train_len, locals, modelVars, optVars, fwd>>

\* Lines 155-176: the early-stopping block of the monitored metric, then the
\* test of the epoch budget.
EndOfEpoch ==
    /\ pc = "early_stopping"
    /\ LET dev_loss == Last(dev_loss_record)
           dev_score == Last(dev_score_record)
           flag == Improved(args.monitor, dev_loss, dev_score,
                            prev_dev_loss, prev_dev_score)
           hist == IF args.early_stopping
                   THEN Append(training_hist, flag) ELSE training_hist
           stop == args.early_stopping /\ ~flag /\ Triggered(hist, args.patience)
       IN  /\ training_hist' = hist
           /\ log' = IF stop
                     THEN Append(log, [event |-> "early_stopping", epoch |-> best_epoch])
                     ELSE log
           \* lines 163 / 173 are skipped by the break
           /\ prev_dev_loss' =
                prev_after(~stop /\ args.early_stopping /\ args.monitor = "loss",
                           dev_loss, prev_dev_loss)
           /\ prev_dev_score' =
                prev_after(~stop /\ args.early_stopping /\ args.monitor = "score",
                           dev_score, prev_dev_score)
           /\ IF LeavesLoop(stop, epoch, NUM_EPOCHS)
              THEN pc' = "return" /\ UNCHANGED <<epoch, step>>
              ELSE pc' = "train" /\ epoch' = epoch + 1 /\ step' = 0
    /\ UNCHANGED outsideTrain
    /\ UNCHANGED <<args, train_len, global_step, min_loss, max_score,
                   dev_loss_record, dev_score_record, best_epoch, output_dir,
                   modelVars, ckpt, optVars, fwd>>

\* Line 178: output_dir and best_epoch are unbound when no epoch saved.
Return ==
    /\ pc = "return"
    /\ pc' = IF output_dir = "unbound" THEN "raised" ELSE "returned"
    /\ UNCHANGED outsideTrain
    /\ UNCHANGED <<args, train_len, locals, modelVars, ckpt, log, optVars, fwd>>

\* A failure of a forward/backward pass or of the validation run: it
\* propagates out of train() uncaught.
Fail ==
    /\ pc \in {"train", "validate"}
    /\ pc' = "failed"
    /\ UNCHANGED outsideTrain
    /\ UNCHANGED <<args, train_len, locals, modelVars, ckpt, log, optVars, fwd>>

\* A failure of save_pretrained while it rewrites the weights file.
FailInSaveModel ==
    /\ pc = "save_model"
    /\ ckpt' = [ckpt EXCEPT !.model = TornFile]
    /\ pc' = "failed"
    /\ UNCHANGED outsideTrain
    /\ UNCHANGED <<args, train_len, locals, modelVars, log, optVars, fwd>>

\* A failure of torch.save while it rewrites training_args.bin.
FailInSaveArgs ==
    /\ pc = "save_args"
    /\ ckpt' = [ckpt EXCEPT !.args = TornFile]
    /\ pc' = "failed"
    /\ UNCHANGED outsideTrain
    /\ UNCHANGED <<args, train_len, locals, modelVars, log, optVars, fwd>>

\* from_pretrained reading nothing: the model keeps the parameters in memory.
checkpoint_weights_InMemory(ck, w) == w

\* The parameters from_pretrained(checkpoint) reads from the weights file.
checkpoint_weights(ck, w) == ck.model.weights

\* Lines 240-248 of main(): train() has returned the checkpoint directory,
\* and a new model is loaded from it (from_pretrained returns it in
\* inference mode, with no gradients).
LoadBest ==
    /\ pc = "returned"
    /\ weights' = checkpoint_weights(ckpt, weights)
    /\ mode' = "eval"
    /\ grads' = 0
    /\ pc' = "loaded"
    /\ UNCHANGED <<args, train_len, locals, ckpt, log, optVars, fwd>>
    /\ UNCHANGED outsideTrain

\* Lines 250-257 of main(): the two calls of evaluate() on the loaded model
\* and the two files of predictions.
WritePredictions ==
    /\ pc = "loaded"
    /\ mode' = model_eval(mode)
    /\ fwd' = [caller |-> "evaluate", mode |-> model_eval(mode)]
    /\ pred_files' = [dev |-> [written |-> TRUE, weights |-> weights],
                      test |-> [written |-> TRUE, weights |-> weights]]
    /\ pc' = "finished"
    /\ UNCHANGED <<args, train_len, locals, ckpt, log, optVars, weights, grads>>
    /\ UNCHANGED <<evalVars, metricVars>>

Next ==
    \/ TrainStep
    \/ Validate
    \/ SaveModel
    \/ SaveArgs
    \/ EndOfEpoch
    \/ Return
    \/ Fail
    \/ FailInSaveModel
    \/ FailInSaveArgs

Spec == Init /\ [][Next]_vars

NextEval ==
    \/ EvalCall
    \/ EvalBatch
    \/ EvalReturn

SpecEval == InitEval /\ [][NextEval]_vars

\* main(): train(), then the predictions of the best checkpoint.
NextMain ==
    \/ Next
    \/ LoadBest
    \/ WritePredictions

SpecMain == Init /\ [][NextMain]_vars

\* train() with a warmup schedule.
SpecWarmup == InitWarmup /\ [][Next]_vars

NextMetric ==
    \/ OneHot
    \/ Score

SpecMetric == InitMetric /\ [][NextMetric]_vars


\* =================================================================
\* Properties of train()
\* =================================================================
\* The record of the monitored metric, and "a is strictly better than b".
MonitoredRecord ==
    IF args.monitor = "loss" THEN dev_loss_record ELSE dev_score_record
Better(a, b) == IF args.monitor = "loss" THEN a < b ELSE a > b

\* Epochs whose validation run is recorded (indices from 0).
Executed == 0..(Len(dev_loss_record) - 1)
\* The loop of line 96 has been left (by a break or by the budget).
LoopLeft == pc \in {"return", "returned", "raised"}
\* The checkpoint block (lines 131-153) of epoch e is over.
Selected(e) ==
    /\ e \in Executed
    /\ e < epoch \/ pc = "early_stopping" \/ LoopLeft
\* The early-stopping block (lines 155-173) of epoch e is over.
Checked(e) == e \in Executed /\ (e < epoch \/ LoopLeft)
\* train() is running or has returned, and is not inside a checkpoint block.
NoSaveInProgress == pc \in {"train", "validate", "early_stopping"} \/ LoopLeft
\* The log holds "new best model! saved." for epoch e.
SavedAt(e) == \E i \in 1..Len(log) : log[i] = [event |-> "saved", epoch |-> e]
\* The break of line 162 / 172 was taken.
Stopped == \E i \in 1..Len(log) : log[i].event = "early_stopping"
\* The parameters at the end of the training steps of epoch e.
WeightsAfterEpoch(e) == (e + 1) * train_len

\* C1: when the loop of train() has ended after at least one epoch, by early
\* stopping or by the epoch budget, train() returns normally, best_epoch is
\* an executed epoch whose monitored metric no executed epoch beats, and the
\* weights file of the checkpoint directory holds the parameters as they
\* were at the end of that epoch.
C1_BestCheckpointAtEnd ==
    (LoopLeft /\ Len(dev_loss_record) > 0) =>
        /\ pc # "raised"
        /\ best_epoch \in Executed
        /\ \A e \in Executed :
              ~Better(MonitoredRecord[e + 1], MonitoredRecord[best_epoch + 1])
        /\ ckpt.model = File(ThisRun, best_epoch, WeightsAfterEpoch(best_epoch))

\* A run that returned with the best epoch neither the first nor the last.
C1_Witness ==
    /\ pc = "returned"
    /\ Len(dev_loss_record) = 3
    /\ best_epoch = 1

\* C2: an epoch persists a checkpoint exactly when its monitored metric is
\* strictly better than that of every earlier epoch; best_epoch is the last
\* epoch that persisted one, so a tie changes neither.
C2_SaveIffStrictlyBetter ==
    /\ \A e \in Executed :
          Selected(e) =>
             (SavedAt(e) <=>
                 \A d \in 0..(e - 1) :
                     Better(MonitoredRecord[e + 1], MonitoredRecord[d + 1]))
    /\ NoSaveInProgress =>
          /\ \A d \in Executed : SavedAt(d) => d <= best_epoch
          /\ best_epoch # Unbound => SavedAt(best_epoch)
    /\ \A i, j \in 1..Len(log) :
          (log[i].event = "saved" /\ log[j].event = "saved" /\ i # j)
              => log[i].epoch # log[j].epoch

\* Loss [2, 1, 2, 1]: written at epochs 0 and 1 only, the tie at epoch 3 and
\* the worse epoch 2 write nothing, best_epoch stays 1.
C2_Witness ==
    /\ pc = "returned"
    /\ args.monitor = "loss"
    /\ dev_loss_record = <<2, 1, 2, 1>>
    /\ SavedAt(0) /\ SavedAt(1) /\ ~SavedAt(2) /\ ~SavedAt(3)
    /\ best_epoch = 1


\* C3: with early stopping enabled and patience >= 1, the step that ends an
\* epoch appends one flag, and takes the break (RUNNING -> STOPPED) exactly
\* when the history then holds more than patience flags and none of its last
\* patience flags is true; otherwise the loop goes on to the next epoch, or
\* ends when the budget is exhausted.
C3_StopIffWindowAllFalse ==
    [][(pc = "early_stopping" /\ args.early_stopping /\ args.patience >= 1) =>
          LET h == training_hist'
              p == args.patience
              n == IF args.early_stopping
                   THEN args.max_num_epochs ELSE args.num_train_epochs
              trailing == Len(h) > p /\ \A i \in (Len(h) - p + 1)..Len(h) : ~h[i]
          IN  /\ Len(h) = Len(training_hist) + 1
              /\ SubSeq(h, 1, Len(training_hist)) = training_hist
              /\ ~Stopped
              /\ Stopped' <=> trailing
              /\ trailing => (pc' = "return" /\ epoch' = epoch)
              /\ (~trailing /\ epoch + 1 < n) => (pc' = "train" /\ epoch' = epoch + 1)
              /\ (~trailing /\ epoch + 1 >= n) => (pc' = "return" /\ epoch' = epoch)
      ]_vars

\* Early stopping fired with patience 2 while two epochs of the budget
\* were left.
C3_Witness ==
    /\ Stopped
    /\ args.patience = 2
    /\ Len(training_hist) = 3
    /\ NUM_EPOCHS = epoch + 2

\* An epoch (from 1 on) whose dev_loss is not lower than that of the epoch
\* before it, and p such epochs in a row ending at epoch e.
NotLower(e) == e >= 1 /\ dev_loss_record[e + 1] >= dev_loss_record[e]
RunOfNotLower(e, p) == e - p + 1 >= 1 /\ \A k \in (e - p + 1)..e : NotLower(k)

\* C4: with early stopping enabled, monitor "loss" and patience p >= 1, the
\* run stops right after the p-th consecutive epoch whose dev_loss is not
\* lower than the previous epoch's: once the early-stopping block of such an
\* epoch is over the loop has been left there and no later epoch is
\* executed, and the break is taken at no other epoch.
C4_StopsAtPthNonImproving ==
    (args.early_stopping /\ args.monitor = "loss" /\ args.patience >= 1) =>
        /\ \A e \in Executed :
              (Checked(e) /\ RunOfNotLower(e, args.patience)) =>
                  /\ Stopped
                  /\ LoopLeft \/ pc = "failed"
                  /\ epoch = e
                  /\ Len(dev_loss_record) = e + 1
        /\ Stopped =>
              /\ RunOfNotLower(epoch, args.patience)
              /\ ~NotLower(epoch - args.patience)

\* Patience 2, a budget of 4 and dev_loss [1, 1, 2]: the run stopped after
\* epoch index 2, its second epoch in a row that is not lower, and returned
\* without executing epoch index 3.
C4_Witness ==
    /\ args.early_stopping /\ args.monitor = "loss" /\ args.patience = 2
    /\ args.max_num_epochs = 4
    /\ dev_loss_record = <<1, 1, 2>>
    /\ Stopped /\ epoch = 2
    /\ pc = "returned"

\* The epoch budget as the configuration states it.
Budget ==
    IF args.early_stopping THEN args.max_num_epochs ELSE args.num_train_epochs
\* The epoch indices train() has logged, in the order of the log.
EpochsLogged ==
    LET v == SelectSeq(log, LAMBDA r : r.event = "validation")
    IN  [i \in 1..Len(v) |-> v[i].epoch]
Ended == pc \in {"returned", "raised", "failed"}
\* What is left to do: the epochs of the budget not begun, and the steps of
\* the current epoch.
Remaining ==
    IF Ended THEN 0
    ELSE IF pc = "return" THEN 1
    ELSE 2 + (Budget - epoch - 1) * (train_len + 6)
           + (CASE pc = "train" -> 5 + (train_len - step)
                [] pc = "validate" -> 4
                [] pc = "save_model" -> 3
                [] pc = "save_args" -> 2
                [] OTHER -> 1)

\* C7: train() terminates after at most N_epochs epochs (every step leaves
\* less to do, and a step is possible until train() has ended); the epochs
\* executed are 0, 1, 2, ... in this order, each once, at most N_epochs of
\* them; without early stopping a train() that is through its loop has
\* executed exactly N_epochs epochs.
C7_TerminatesWithinBudget ==
    [][/\ Remaining' < Remaining
       /\ Remaining' >= 0
       /\ (~Ended') => ENABLED Next
       /\ EpochsLogged' = [i \in 1..Len(dev_loss_record') |-> i - 1]
       /\ Len(dev_loss_record') <= Budget
       /\ (~args.early_stopping /\ LoopLeft') => Len(dev_loss_record') = Budget
      ]_vars

\* A run without early stopping that returned after the 3 epochs of its
\* budget (max_num_epochs, which it does not use, is 4).
C7_Witness ==
    /\ pc = "returned"
    /\ ~args.early_stopping
    /\ args.num_train_epochs = 3
    /\ EpochsLogged = <<0, 1, 2>>

\* C8: once early stopping has fired, the only step left is the return: no
\* training step, no validation run, no checkpoint write and no append to
\* the flag or metric histories follows.
C8_StoppedIsTerminal ==
    [][Stopped =>
          /\ pc = "return" /\ pc' \in {"returned", "raised"}
          /\ UNCHANGED <<weights, global_step, step, epoch, mode, ckpt, log,
                         training_hist, dev_loss_record, dev_score_record,
                         best_epoch>>
      ]_vars

\* Early stopping fired before the budget was exhausted, and train() returned.
C8_Witness ==
    /\ Stopped
    /\ pc = "returned"
    /\ epoch + 1 < NUM_EPOCHS


\* The last epoch for which a checkpoint was persisted (both files written).
Persisted == {e \in Executed : SavedAt(e)}
LastPersisted == CHOOSE e \in Persisted : \A d \in Persisted : d <= e

\* C5: after a failure that aborts train() once a checkpoint has been
\* persisted, the checkpoint directory still holds, complete, the last
\* checkpoint persisted before the failure.
C5_BestCheckpointSurvivesFailure ==
    (pc = "failed" /\ Persisted # {}) =>
        /\ ckpt.model = File(ThisRun, LastPersisted,
                             WeightsAfterEpoch(LastPersisted))
        /\ ckpt.args = File(ThisRun, LastPersisted, 0)

\* C6: whenever the checkpoint directory holds a file, it holds a complete
\* weights file and a complete training_args file written by the same save
\* (the same run, at the same epoch).
C6_FilesWrittenTogether ==
    (ckpt.model.state # "none" \/ ckpt.args.state # "none") =>
        /\ ckpt.model.state = "complete"
        /\ ckpt.args.state = "complete"
        /\ ckpt.model.run = ckpt.args.run
        /\ ckpt.model.epoch = ckpt.args.epoch

\* =================================================================
\* Properties of evaluate()
\* =================================================================
\* Whether the batches of the batch-sequence carry a label field.
Labelled == dataloader[1].labels
\* The examples of the batch-sequence in batch-iteration order.
RECURSIVE ExamplesFrom(_)
ExamplesFrom(i) ==
    IF i > Len(dataloader) THEN <<>>
    ELSE dataloader[i].inputs \o ExamplesFrom(i + 1)

\* C9: on a batch-sequence without labels, evaluate() with predict_only=true,
\* and with predict_only=false and eval=true, runs through and returns.
C9_LabelFreeModesComplete ==
    (epc # "unused" /\ ~Labelled /\ (predict_only \/ eval)) => epc # "raised"

\* C10: evaluate() leaves the parameters and the gradients of the model as
\* they were, and every call with predict_only=true on the same model and
\* batch-sequence returns the same thing: the class index of the largest
\* inference-mode logit of each example, in batch-iteration order.
C10_PredictOnlyIdempotent ==
    (epc # "unused") =>
        /\ weights = 0 /\ grads = 0
        /\ predict_only =>
              /\ \A i \in 1..Len(calls) :
                    /\ calls[i].kind = "preds"
                    /\ calls[i].value =
                          [k \in 1..Len(ExamplesFrom(1)) |->
                              argmax(net[ExamplesFrom(1)[k]])]
              /\ \A i, j \in 1..Len(calls) : calls[i] = calls[j]

\* Two calls with predict_only=true have returned, on two batches of two
\* examples that do not all get the same class.
C10_Witness ==
    /\ predict_only
    /\ Len(calls) = 2
    /\ Len(dataloader) = 2
    /\ Len(calls[2].value) = 4
    /\ calls[2].value[1] # calls[2].value[4]


\* =================================================================
\* Properties of one_hot() and of the score of line 57
\* =================================================================
\* The matrices one_hot() returned.
OneHotDone == mpc \in {"one_hot", "scored"}

\* C11: for class indices x and a number of labels L with 0 <= x[i] < L,
\* one_hot(x, L) has len(x) rows of L entries, each entry 0 or 1, every row
\* sums to exactly 1, and row i has its 1 in column x[i].
C11_OneHotRows ==
    OneHotDone =>
        LET res == m_res.preds IN
        /\ Len(res) = Len(m_x)
        /\ \A i \in 1..Len(m_x) :
              /\ Len(res[i]) = m_labels
              /\ \A c \in 1..m_labels : res[i][c] \in {0, 1}
              /\ Sum(res[i]) = 1
              /\ res[i][m_x[i] + 1] = 1

\* one_hot() has encoded two rows of different classes, the first not the
\* background class.
C11_Witness ==
    /\ mpc = "one_hot"
    /\ Len(m_x) = 2 /\ m_x[1] = 2 /\ m_x[2] = 0
    /\ m_res.preds = <<<<0, 0, 1>>, <<1, 0, 0>>>>

\* C12: the micro-F1 of line 57 is the same for two pairs of prediction and
\* gold matrices that differ in column 0 only.
C12_ScoreIgnoresColumn0 ==
    mpc = "scored" => RatEq(m_score[1], m_score[2])

\* Two pairs that differ in column 0, of predictions and of golds, were
\* scored, and the score is not 0.
C12_Witness ==
    /\ mpc = "scored"
    /\ \E i \in 1..Len(m_x) : m_alt.preds[i][1] # m_res.preds[i][1]
    /\ \E i \in 1..Len(m_x) : m_alt.golds[i][1] # m_res.golds[i][1]
    /\ m_score[1][1] > 0


\* =================================================================
\* Properties of the optimizer and the schedule
\* =================================================================
\* A training step (lines 101-116) has just completed.
StepCompleted == global_step' = global_step + 1
\* The numerator and the denominator of warmup_ratio times the number of
\* training batches times the epoch budget.
WarmupNum ==
    args.warmup_ratio[1] * train_len * Budget
WarmupDen == args.warmup_ratio[2]

\* C13: with warmup enabled and W = warmup_ratio * (number of training
\* batches) * (epoch budget), the schedule has been stepped once per
\* training step, the learning rate rises strictly at each of the first W
\* steps of the run, and does not rise at any step that begins after W steps.
\* (When W is not whole, the one step during which W is crossed is left open.)
C13_WarmupThenDecay ==
    [][(args.warmup /\ StepCompleted) =>
         LET k == global_step' IN
         /\ sched_steps' = k
         /\ (k * WarmupDen <= WarmupNum) => RatLess(lr, lr')
         /\ ((k - 1) * WarmupDen >= WarmupNum) => ~RatLess(lr, lr')]_vars

\* A run with a whole number of warmup steps (2 of 4) is one step past its
\* peak: the rate went 0, 1/2, 1, 1/2.
C13_Witness ==
    /\ args.warmup /\ args.warmup_ratio = <<1, 2>>
    /\ WarmupNum = 4
    /\ global_step = 3 /\ sched_steps = 3
    /\ RatEq(lr, <<1, 2>>)


\* =================================================================
\* Properties of the improvement flags
\* =================================================================
\* The monitored value of the epoch before e; the sentinel before epoch 0.
PreviousValue(e) ==
    IF e = 0 THEN (IF args.monitor = "loss" THEN PosInf ELSE NegInf)
    ELSE MonitoredRecord[e]

\* C14: with early stopping enabled, every epoch whose early-stopping block
\* has run has one flag, and the flag of epoch e is true exactly when
\* dev_loss(e) < dev_loss(e-1) under monitor "loss" and when
\* dev_score(e) >= dev_score(e-1) under monitor "score", with +inf / -inf
\* standing for the value before epoch 0: an equal value is no improvement of
\* the loss and is one of the score.
C14_FlagAgainstPreviousEpoch ==
    args.early_stopping =>
        /\ \A e \in Executed : Checked(e) => e + 1 <= Len(training_hist)
        /\ \A e \in 0..(Len(training_hist) - 1) :
              /\ e \in Executed
              /\ training_hist[e + 1] =
                    IF args.monitor = "loss"
                    THEN MonitoredRecord[e + 1] < PreviousValue(e)
                    ELSE MonitoredRecord[e + 1] >= PreviousValue(e)

\* The loss went 0, 1, 0: the flag of epoch 2 is true although epoch 2 does
\* not beat the best loss (that of epoch 0).
C14_Witness ==
    /\ args.early_stopping /\ args.monitor = "loss"
    /\ dev_loss_record = <<0, 1, 0>>
    /\ training_hist = <<TRUE, FALSE, TRUE>>
    /\ best_epoch = 0

\* C15 (as claimed): with early stopping enabled and patience = 0, the loop
\* has stopped once the early-stopping block of an epoch with a false flag
\* is over, and that epoch is the last one executed.
C15_PatienceZeroStopsAtFirstFalse ==
    (args.early_stopping /\ args.patience = 0) =>
        \A e \in Executed :
            (Checked(e) /\ ~training_hist[e + 1]) =>
                /\ Stopped
                /\ e = Len(dev_loss_record) - 1


\* =================================================================
\* Properties of the model's mode and of the training step
\* =================================================================
\* C16: the latest forward pass, when a training step made it, ran in
\* training mode (also in an epoch that follows a validation run), and when
\* evaluate() made it, ran in inference mode and evaluate() has left the
\* model in inference mode.
C16_ModeAtForward ==
    /\ fwd.caller = "train" => fwd.mode = "train"
    /\ fwd.caller = "evaluate" => (fwd.mode = "eval" /\ mode = "eval")

\* A training step of epoch 1 has run in training mode, after the validation
\* run of epoch 0.
C16_Witness ==
    /\ epoch = 1 /\ step = 1 /\ Len(dev_loss_record) = 1
    /\ fwd = [caller |-> "train", mode |-> "train"]

\* The calls of one training step, as claimed.
StepOrder ==
    <<"model.train", "forward", "backward", "clip_grad_norm_", "optimizer.step">>
    \o (IF args.warmup THEN <<"scheduler.step">> ELSE <<>>)
    \o <<"optimizer.zero_grad", "global_step += 1">>

\* C17: every training step makes its calls in the order forward, backward,
\* clipping, optimizer step, schedule step exactly when warmup is enabled,
\* gradient zeroing, increment of global_step; between steps no gradient is
\* accumulated, every optimizer step applied the gradient of one batch, the
\* parameters and the schedule have taken one step per training step, and
\* after k completed epochs global_step is k times the number of batches.
C17_OneUpdatePerBatch ==
    /\ grads = 0
    /\ weights = global_step
    /\ sched_steps = (IF args.warmup THEN global_step ELSE 0)
    /\ global_step > 0 => (step_grad = 1 /\ step_ops = StepOrder)
    /\ global_step = epoch * train_len + step
    /\ pc \in {"save_model", "save_args", "early_stopping", "return", "returned"}
          => global_step = Len(dev_loss_record) * train_len

\* Two epochs of two batches are completed in a run with warmup.
C17_Witness ==
    /\ args.warmup /\ train_len = 2
    /\ pc = "early_stopping" /\ Len(dev_loss_record) = 2
    /\ global_step = 4 /\ sched_steps = 4

\* =================================================================
\* Properties of main()
\* =================================================================
\* C18: a prediction file is written only when train() has returned, and
\* the validation and the test predictions are computed with the parameters
\* of the end of best_epoch, the ones of the checkpoint train() returned.
C18_PredictionsFromBestCheckpoint ==
    \A f \in {"dev", "test"} :
        pred_files[f].written =>
            /\ pc = "finished"
            /\ best_epoch \in Executed
            /\ pred_files[f].weights = WeightsAfterEpoch(best_epoch)
            /\ pred_files[f].weights = ckpt.model.weights

\* The predictions are written after a run of three epochs whose best epoch
\* is the first.
C18_Witness ==
    /\ pc = "finished"
    /\ Len(dev_loss_record) = 3 /\ best_epoch = 0
    /\ pred_files.dev.written /\ pred_files.test.written
    /\ pred_files.dev.weights < global_step

\* =================================================================
\* Properties that join checkpoint selection and early stopping
\* =================================================================
\* C19: with early stopping enabled and patience >= 1, every epoch that
\* persisted a checkpoint has a true flag, the epoch at which early stopping
\* fired persisted none, and then best_epoch <= s - patience for that epoch s.
C19_SavedEpochsImprove ==
    (args.early_stopping /\ args.patience >= 1) =>
        /\ \A e \in 0..(Len(training_hist) - 1) : SavedAt(e) => training_hist[e + 1]
        /\ Stopped =>
              /\ ~SavedAt(epoch)
              /\ best_epoch # Unbound
              /\ best_epoch <= epoch - args.patience

\* Early stopping with patience 2 fired at epoch 3, two epochs after the
\* last checkpoint.
C19_Witness ==
    /\ args.early_stopping /\ args.patience = 2
    /\ Stopped /\ epoch = 3 /\ best_epoch = 1
    /\ SavedAt(0) /\ SavedAt(1)

\* The checkpoint directory holds the two files of epoch e of this run.
CheckpointOf(e) ==
    /\ ckpt.model.state = "complete" /\ ckpt.model.run = ThisRun
    /\ ckpt.model.epoch = e
    /\ ckpt.args.state = "complete" /\ ckpt.args.run = ThisRun
    /\ ckpt.args.epoch = e

\* C20: in a run with an epoch budget of at least 1 (monitor "loss" or
\* "score", finite metrics), the checkpoint block of epoch 0 sets best_epoch
\* to 0 and persists a checkpoint; from then on, whenever train() is not
\* inside a checkpoint block and has not failed, the checkpoint directory
\* holds the checkpoint of best_epoch, and train() returns (line 178 does
\* not raise) with the path and best_epoch bound.
C20_BestAlwaysDefined ==
    Budget >= 1 =>
        /\ (epoch = 0 /\ pc \in {"save_model", "save_args"}) => best_epoch = 0
        /\ Selected(0) =>
              /\ SavedAt(0)
              /\ best_epoch \in Executed
              /\ output_dir = "best_model_dir"
              /\ NoSaveInProgress => CheckpointOf(best_epoch)
        /\ pc # "raised"
        /\ pc = "return" => Selected(0)

\* train() has returned from a run whose first validation gave the worst
\* finite loss: epoch 0 persisted a checkpoint all the same, and a later
\* epoch replaced it.
C20_Witness ==
    /\ pc = "returned"
    /\ args.monitor = "loss" /\ dev_loss_record[1] = MaxMetric
    /\ SavedAt(0) /\ best_epoch > 0
    /\ CheckpointOf(best_epoch)

=============================================================================
